---- MODULE Spec2Model ----
(***************************************************************************)
(* Travel-Agent: the turn loop of the travel assistant (src/main.py,       *)
(* src/src/graph.py, src/src/nodes.py, src/src/agent.py) and the tool      *)
(* bodies of src/src/tools.py, src/src/nodes.py and src/src/demo.py.       *)
(*                                                                         *)
(* Four specifications:                                                    *)
(*   Spec        the turn loop: caller -> app.invoke -> assistant -> tools *)
(*               -> assistant ... over the per-thread checkpoints;         *)
(*   ToolSpec    one tool invocation at a time, attempt by attempt,        *)
(*               against every upstream behaviour;                         *)
(*   FormatSpec  the string a tool returns for an upstream payload, run    *)
(*               by run, with the wall clock advancing between runs;       *)
(*   CallerSpec  the caller loops of src/main.py, src/streamlit_app.py     *)
(*               and src/src/demo.py: reading input, choosing the thread   *)
(*               id and handling what a turn raises.                       *)
(*                                                                         *)
(* The graph is run by langgraph (StateGraph / MemorySaver / ToolNode).    *)
(* What the source delegates to it is modelled by its documented           *)
(* behaviour, at the source line that delegates: the checkpoint of a       *)
(* thread_id holds the messages channel, a node's returned messages are    *)
(* appended to it, ToolNode answers every tool call of the last assistant  *)
(* message in call order, and a run that is not finished after             *)
(* recursion_limit supersteps raises GraphRecursionError.                  *)
(***************************************************************************)
EXTENDS Integers, Sequences, FiniteSets, TLC

(* ------------------------------ bounds -------------------------------- *)

\* Turns submitted in one behaviour, over all threads.
MaxTurns == 2

\* Tool calls one assistant message may carry.
MaxBatch == 2

\* The recursion limit is 2 * MaxRounds + 1 supersteps; main.py passes no
\* recursion_limit, so the running program has langgraph's default, 25
\* (MaxRounds = 12).
MaxRounds == 1

\* Tool calls the decision step emits in one behaviour, over all turns; when
\* they are used up it answers without tool calls.
MaxCalls == 2

RecursionLimit == 2 * MaxRounds + 1

(* --------------------------- thread ids ------------------------------- *)

\* uuid4 values of main.py:56 / streamlit_app.py:76; two are enough to tell
\* one conversation from another.
Threads == {"A", "B"}

(* ----------------------------- messages ------------------------------- *)

NoId == <<>>

\* The text of a message the turn loop never inspects.
UserText == "user_text"
AnswerText == "answer"
EmptyText == ""

\* An answer with white space around it.
PaddedText == " answer "

(* -------------------------------- text -------------------------------- *)

\* Python str values are strings; s[i:j] is SubSeq, + is \o, len is Len.
CharAt(s, i) == SubSeq(s, i, i)

IsSpace(ch) == ch \in {" ", "\t", "\n", "\r"}

RECURSIVE lstrip(_)
lstrip(s) ==
    IF Len(s) > 0 /\ IsSpace(CharAt(s, 1))
    THEN lstrip(SubSeq(s, 2, Len(s)))
    ELSE s

RECURSIVE rstrip(_)
rstrip(s) ==
    IF Len(s) > 0 /\ IsSpace(CharAt(s, Len(s)))
    THEN rstrip(SubSeq(s, 1, Len(s) - 1))
    ELSE s

\* str.strip().
strip(s) == rstrip(lstrip(s))

\* The first position at which sub stands in s, 0 when it does not.
Find(s, sub) ==
    LET hits == {i \in 1..(Len(s) - Len(sub) + 1) :
                    SubSeq(s, i, i + Len(sub) - 1) = sub}
    IN  IF hits = {} THEN 0 ELSE CHOOSE i \in hits : \A j \in hits : i <= j

\* str.lower() on the letters A-Z.
RECURSIVE lower(_)
lower(s) ==
    IF Len(s) = 0 THEN s
    ELSE LET k == Find("ABCDEFGHIJKLMNOPQRSTUVWXYZ", CharAt(s, 1))
             ch == IF k = 0 THEN CharAt(s, 1)
                   ELSE CharAt("abcdefghijklmnopqrstuvwxyz", k)
         IN  ch \o lower(SubSeq(s, 2, Len(s)))

HumanMessage(c, o) ==
    [role |-> "user", content |-> c, tool_calls |-> <<>>,
     tool_call_id |-> NoId, name |-> "", by |-> NoId, origin |-> o]

AIMessage(c, calls, o) ==
    [role |-> "assistant", content |-> c, tool_calls |-> calls,
     tool_call_id |-> NoId, name |-> "", by |-> NoId, origin |-> o]

\* `by` records which call's execution produced the content (NoId when no
\* tool ran); `origin` records the thread id the turn was submitted under.
\* Neither is read by the program.
ToolMessage(c, id, n, b, o) ==
    [role |-> "tool", content |-> c, tool_calls |-> <<>>,
     tool_call_id |-> id, name |-> n, by |-> b, origin |-> o]

\* nodes.py:61: the fixed system instruction.
SystemMessage(c) ==
    [role |-> "system", content |-> c, tool_calls |-> <<>>,
     tool_call_id |-> NoId, name |-> "", by |-> NoId, origin |-> ""]

sys_msg == SystemMessage("TRAVEL_ASSISTANT_SYSTEM_MESSAGE")

(* ------------------------------ registry ------------------------------ *)

\* nodes.py:55, the list graph.py:27 hands to ToolNode.
tools == {"get_weather_data"}

\* tools.py:266, the list agent.py:51-57 hands to create_react_agent.
TRAVEL_TOOLS == {"get_weather_forecast", "web_search_tavily", "continue_chat"}

\* A name the decision step may emit that no registry holds.
UnknownName == "book_flight"

\* src/src/demo.py:168, the list its build_agent hands to create_react_agent.
TOOLS == {"get_weather_data", "web_search_tavily", "continue_chat"}

\* The tools the tools node of a program holds: ToolNode(tools) of the graph
\* main.py compiles (graph.py:27), TRAVEL_TOOLS of the TravelAgent the web
\* app creates (agent.py:54), TOOLS of the demo's agent (demo.py:178).
Registry(p) ==
    CASE p = "main.py" -> tools
      [] p = "streamlit_app.py" -> TRAVEL_TOOLS
      [] p = "demo.py" -> TOOLS

(* ------------------------------- state -------------------------------- *)

VARIABLES
    checkpoints,  \* MemorySaver: thread_id -> the messages channel (graph.py:42-45)
    pc,           \* per caller thread: "idle", or the node scheduled next
    steps,        \* supersteps finished in the running turn
    done,         \* tools node: indices of the batch in completion order
    outputs,      \* tools node: index -> the ToolMessage its execution returned
    seen,         \* the messages the last decision call received (after sys_msg)
    llm_input,    \* the list handed to llm_with_tools.invoke by the last decision call
    result,       \* how the last turn ended, as main.py:91-102 sees it
    answer,       \* the content main.py:94-95 prints
    web_answer,   \* assistant_response of streamlit_app.py:187-201 for the turn
    turnStart,    \* length of the history read when the turn was submitted
    decisions,    \* decision calls made in the running turn
    toolRounds,   \* decision responses of the running turn that carried tool calls
    dispatches,   \* tool functions run in the running turn
    executed,     \* call ids the tools node has run, in order of completion
    turns,        \* turns submitted so far
    tool,         \* ToolSpec: the tool function being invoked
    arg,          \* ToolSpec: its first argument, by validation class
    cred,         \* ToolSpec: whether the API key is in the environment
    tpc,          \* ToolSpec: "idle", "upstream", "returned" or "raised"
    attempts,     \* ToolSpec: upstream behaviours met, one per request made
    treturn,      \* ToolSpec: the return statement taken
    demo_module,  \* ToolSpec: demo.py "not_loaded", "loaded", or the exception
                  \* its module-level code raised
    today,        \* FormatSpec: the calendar day datetime.now().date() gives
    last_call,    \* FormatSpec: the last tool invocation, with its output
    prev_call,    \* FormatSpec: the invocation that last_call repeated, if it did
    program,      \* CallerSpec: the caller loop that runs
    cpc,          \* CallerSpec: where it is: "seed", "loop", "exited", "crashed"
    config_thread_id, \* CallerSpec: the thread id its config holds
    used,         \* CallerSpec: the thread ids uuid4 has handed out
    handled,      \* CallerSpec: what it did with the input it read last
    turns_here,   \* CallerSpec: turns it submitted since the thread id was made
    session_state \* CallerSpec: st.session_state of the web chat: messages (the
                  \* displayed conversation), agent, model_name, temperature

gvars == <<checkpoints, pc, steps, done, outputs, seen, llm_input, result, answer,
           web_answer,
           turnStart, decisions, toolRounds, dispatches, executed, turns>>

tvars == <<tool, arg, cred, tpc, attempts, treturn, demo_module>>

fvars == <<today, last_call, prev_call>>

cvars == <<program, cpc, config_thread_id, used, handled, turns_here,
           session_state>>

vars == <<gvars, tvars, fvars, cvars>>

(* ------------------------- the graph, node by node -------------------- *)

Last(s) == s[Len(s)]

get_config_OneThread(thread_id) == [configurable |-> [thread_id |-> "A"]]

\* agent.py:71-73 (main.py:57 builds the same dictionary inline).
get_config(thread_id) == [configurable |-> [thread_id |-> thread_id]]

\* The checkpoint a turn submitted under thread_id reads and writes.
Key(thread_id) == get_config(thread_id).configurable.thread_id

\* history(thread_id): the messages channel of the thread's checkpoint.
history(thread_id) == checkpoints[Key(thread_id)]

chat_condition_AnyAssistant(state) ==
    LET last_msg == Last(state.messages)
    IN  IF last_msg.role = "assistant" THEN "tools" ELSE "END"

\* graph.py:7-17. hasattr(last_msg, 'tool_calls') holds of assistant messages.
chat_condition(state) ==
    LET last_msg == Last(state.messages)
    IN  IF last_msg.role = "assistant" /\ last_msg.tool_calls # <<>>
        THEN "tools"
        ELSE "END"

Min(a, b) == IF a <= b THEN a ELSE b

NumCalls(h) == Cardinality({<<i, j>> \in (DOMAIN h) \X (1..MaxBatch + 1) :
                               j \in DOMAIN h[i].tool_calls})

RECURSIVE SumCalls(_)
SumCalls(S) ==
    IF S = {} THEN 0
    ELSE LET k == CHOOSE k \in S : TRUE
         IN  NumCalls(checkpoints[k]) + SumCalls(S \ {k})

\* Tool calls emitted so far, over all threads.
CallsEmitted == SumCalls(Threads)

\* What llm_with_tools.invoke (nodes.py:66) may return on thread t after
\* history h: a message without tool calls (content or none), or one with
\* 1..MaxBatch tool calls under fresh call ids.
\* prompts.py:4-6 (and 10-11, 18-22, 30-33, 58-60): the tool names the
\* text of SYSTEM_PROMPT tells the decision step to call.
SYSTEM_PROMPT == {"web_search_tavily", "get_weather_data"}

\* The names the system instruction of a program advertises: SYSTEM_PROMPT
\* is the prompt of the TravelAgent (agent.py:56) and of the demo's agent
\* (demo.py:180). The graph of main.py is given TRAVEL_ASSISTANT_SYSTEM_MESSAGE
\* (nodes.py:7, 61), whose text names no tool here.
Advertised(p) == IF p = "main.py" THEN {} ELSE SYSTEM_PROMPT

\* The names the decision step may put in a call: the ones bound to it, the
\* ones its instruction names, and one that nothing names.
ToolNames == Registry(program) \cup Advertised(program) \cup {UnknownName}

CallBatches(t, h, n) ==
    {[i \in 1..n |-> [id |-> <<t, NumCalls(h) + i>>, name |-> names[i]]] :
        names \in [1..n -> ToolNames]}

DecisionResponses(t, h) ==
    {AIMessage(AnswerText, <<>>, t), AIMessage(PaddedText, <<>>, t),
     AIMessage(EmptyText, <<>>, t)}
    \cup UNION {{AIMessage(EmptyText, calls, t) : calls \in CallBatches(t, h, n)} :
                n \in 1..Min(MaxBatch, MaxCalls - CallsEmitted)}

\* ToolNode (graph.py:27) on one call: a name outside the registry is
\* answered by an error message and runs nothing; a registered tool runs.
IsRegistered(call) == call.name \in Registry(program)

\* An exception leaving a node instead of a message.
Fault(exc) ==
    [role |-> "fault", content |-> exc, tool_calls |-> <<>>,
     tool_call_id |-> NoId, name |-> "", by |-> NoId, origin |-> ""]

continue_chat_Echo(user_message) == user_message

\* tools.py:257-262 (and demo.py:161-165): the message is logged (its first
\* 50 characters, a slice that no str fails) and the constant is returned.
continue_chat(user_message) == "CONTINUE_CHAT"

\* What a registered tool hands back to ToolNode. The call's user_message is
\* the user's text; the texts of the other tools are the subject of ToolSpec
\* and FormatSpec and are one tag here.
ToolOutput(call) ==
    IF call.name = "continue_chat" THEN continue_chat(UserText)
    ELSE "tool_output"

RunOne_Raises(call, o) ==
    IF IsRegistered(call)
    THEN ToolMessage(ToolOutput(call), call.id, call.name, call.id, o)
    ELSE Fault("KeyError")

RunOne_NoCallId(call, o) ==
    IF IsRegistered(call)
    THEN ToolMessage(ToolOutput(call), NoId, call.name, call.id, o)
    ELSE ToolMessage("not_a_valid_tool", NoId, call.name, NoId, o)

RunOne(call, o) ==
    IF IsRegistered(call)
    THEN ToolMessage(ToolOutput(call), call.id, call.name, call.id, o)
    ELSE ToolMessage("not_a_valid_tool", call.id, call.name, NoId, o)

ToolNodeOutput_CompletionOrder(calls, outs, order) ==
    [j \in 1..Len(order) |-> outs[order[j]]]

ToolNodeOutput_Merged(calls, outs, order) == <<outs[1]>>

\* ToolNode's return value: one message per call, in the order of the calls.
ToolNodeOutput(calls, outs, order) == [i \in 1..Len(calls) |-> outs[i]]

\* The superstep count at which the run is out of steps.
OutOfSteps(s) == s > RecursionLimit

(* ------------------------------ the turn ------------------------------ *)

Append2_Replacing(h, msgs) ==
    IF h = <<>> THEN msgs ELSE SubSeq(h, 1, Len(h) - 1) \o msgs

\* state.py:22-29: TravelState extends MessagesState, whose messages channel
\* is reduced by add_messages: the messages a node returns are put after
\* the ones the channel holds. (A returned message replaces a held one only
\* when it carries the same id; main.py:88 and the nodes build every message
\* without an id, so each gets a fresh one.)
Append2(h, msgs) == h \o msgs

\* main.py:88-91: one HumanMessage is handed to app.invoke under the
\* caller's config; the input is appended to the thread's checkpoint and
\* the edge START -> assistant (graph.py:30) schedules the decision step.
app_invoke(t, content) ==
    /\ pc[t] = "idle"
    /\ turns < MaxTurns
    /\ turns' = turns + 1
    /\ turnStart' = [turnStart EXCEPT ![t] = Len(history(t))]
    /\ checkpoints' = [checkpoints EXCEPT
                          ![Key(t)] = Append(@, HumanMessage(content, t))]
    /\ pc' = [pc EXCEPT ![t] = "assistant"]
    /\ steps' = [steps EXCEPT ![t] = 0]
    /\ decisions' = [decisions EXCEPT ![t] = 0]
    /\ toolRounds' = [toolRounds EXCEPT ![t] = 0]
    /\ dispatches' = [dispatches EXCEPT ![t] = 0]
    /\ result' = [result EXCEPT ![t] = "none"]
    /\ answer' = [answer EXCEPT ![t] = EmptyText]
    /\ web_answer' = [web_answer EXCEPT ![t] = EmptyText]
    /\ done' = [done EXCEPT ![t] = <<>>]
    /\ outputs' = [outputs EXCEPT ![t] = <<>>]
    /\ UNCHANGED <<seen, llm_input, executed, tvars, fvars>>

\* A caller submits a turn with the text UserText under thread id t.
SubmitTurn(t) == app_invoke(t, UserText)

\* main.py:94-95: the content of the last message of the result.
last_message_content(messages) == Last(messages).content

\* streamlit_app.py:184-191: going through the result's messages from the
\* last one back, the stripped content of the first AIMessage that has
\* content and no tool calls in additional_kwargs; "" when there is none.
\* (Responses with tool calls carry no content here, so where the tool calls
\* are stored does not decide the outcome.)
RECURSIVE assistant_response_from(_, _)
assistant_response_from(messages, i) ==
    IF i = 0 THEN EmptyText
    ELSE LET msg == messages[i]
         IN  IF /\ msg.role = "assistant"
                /\ msg.content # EmptyText
                /\ msg.tool_calls = <<>>
             THEN strip(msg.content)
             ELSE assistant_response_from(messages, i - 1)

assistant_response(messages) == assistant_response_from(messages, Len(messages))

\* The position in messages of the message the loop of streamlit_app.py:188
\* stops at; 0 when it runs through.
RECURSIVE assistant_response_index(_, _)
assistant_response_index(messages, i) ==
    IF i = 0 THEN 0
    ELSE LET msg == messages[i]
         IN  IF /\ msg.role = "assistant"
                /\ msg.content # EmptyText
                /\ msg.tool_calls = <<>>
             THEN i
             ELSE assistant_response_index(messages, i - 1)

\* How a superstep that leaves history h ends the turn or goes on:
\* out of steps -> GraphRecursionError reaches main.py:100; otherwise the
\* next node, or END with the last message's content printed (main.py:94-95).
AfterStep(t, h, next) ==
    IF OutOfSteps(steps[t] + 1)
    THEN /\ pc' = [pc EXCEPT ![t] = "idle"]
         /\ result' = [result EXCEPT ![t] = "GraphRecursionError"]
         /\ UNCHANGED <<answer, web_answer>>
    ELSE IF next = "END"
    THEN /\ pc' = [pc EXCEPT ![t] = "idle"]
         /\ result' = [result EXCEPT ![t] = "answer"]
         /\ answer' = [answer EXCEPT ![t] = last_message_content(h)]
         /\ web_answer' = [web_answer EXCEPT ![t] = assistant_response(h)]
    ELSE /\ pc' = [pc EXCEPT ![t] = next]
         /\ UNCHANGED <<result, answer, web_answer>>

assistant_input_LatestOnly(state) == <<sys_msg, Last(state.messages)>>

\* nodes.py:66: [sys_msg] + state["messages"].
assistant_input(state) == <<sys_msg>> \o state.messages

\* nodes.py:64-66 and graph.py:31-38: the decision step reads the whole
\* channel, its response is appended, chat_condition routes.
Assistant(t) ==
    /\ pc[t] = "assistant"
    /\ \E response \in DecisionResponses(t, history(t)) :
          LET h == Append(history(t), response)
          IN  /\ seen' = [seen EXCEPT ![t] = history(t)]
              /\ llm_input' = [llm_input EXCEPT ![t] =
                                  assistant_input([messages |-> history(t)])]
              /\ checkpoints' = [checkpoints EXCEPT ![Key(t)] = h]
              /\ steps' = [steps EXCEPT ![t] = @ + 1]
              /\ decisions' = [decisions EXCEPT ![t] = @ + 1]
              /\ toolRounds' = [toolRounds EXCEPT ![t] =
                                   IF response.tool_calls # <<>> THEN @ + 1 ELSE @]
              /\ AfterStep(t, h, chat_condition([messages |-> h]))
    /\ done' = [done EXCEPT ![t] = <<>>]
    /\ outputs' = [outputs EXCEPT ![t] = <<>>]
    /\ UNCHANGED <<turnStart, dispatches, executed, turns, tvars, fvars>>

\* nodes.py:66 raising (the model server is down, a timeout): nothing
\* catches it before main.py:100; the checkpoint keeps what was appended.
DecisionFails(t) ==
    /\ pc[t] = "assistant"
    /\ seen' = [seen EXCEPT ![t] = history(t)]
    /\ llm_input' = [llm_input EXCEPT ![t] =
                        assistant_input([messages |-> history(t)])]
    /\ decisions' = [decisions EXCEPT ![t] = @ + 1]
    /\ pc' = [pc EXCEPT ![t] = "idle"]
    /\ result' = [result EXCEPT ![t] = "DecisionError"]
    /\ UNCHANGED <<checkpoints, steps, done, outputs, answer, web_answer, turnStart,
                   toolRounds, dispatches, executed, turns, tvars, fvars>>

Batch_FirstOnly(t) ==
    LET calls == Last(history(t)).tool_calls
    IN  IF calls = <<>> THEN <<>> ELSE <<calls[1]>>

\* The batch the tools node works on: the calls of the last message.
Batch(t) == Last(history(t)).tool_calls

\* graph.py:27: ToolNode runs the calls of the batch side by side; call i
\* finishes at some point, after any of the others.
ToolComplete(t, i) ==
    /\ pc[t] = "tools"
    /\ i \in DOMAIN Batch(t)
    /\ \A k \in DOMAIN done[t] : done[t][k] # i
    /\ LET call == Batch(t)[i]
           out == RunOne(call, t)
       IN  /\ outputs' = [outputs EXCEPT ![t] =
                  [k \in (DOMAIN @) \cup {i} |-> IF k = i THEN out ELSE @[k]]]
           /\ done' = [done EXCEPT ![t] = Append(@, i)]
           /\ dispatches' = [dispatches EXCEPT ![t] =
                  IF out.by # NoId THEN @ + 1 ELSE @]
           /\ executed' = [executed EXCEPT ![t] = Append(@, call.id)]
    /\ UNCHANGED <<checkpoints, pc, steps, seen, llm_input, result, answer,
                   web_answer, turnStart, decisions, toolRounds, turns, tvars, fvars>>

\* graph.py:39.
tools_edge == "assistant"

\* graph.py:27 and graph.py:39: when every call has finished the node
\* returns its messages, they are appended, and the edge tools -> assistant
\* schedules the decision step again. An exception raised inside the node
\* leaves app.invoke and reaches main.py:100 with nothing appended.
ToolsFinish(t) ==
    /\ pc[t] = "tools"
    /\ Len(done[t]) = Len(Batch(t))
    /\ IF \E i \in DOMAIN outputs[t] : outputs[t][i].role = "fault"
       THEN /\ pc' = [pc EXCEPT ![t] = "idle"]
            /\ result' = [result EXCEPT ![t] = "ToolError"]
            /\ UNCHANGED <<checkpoints, steps, answer, web_answer>>
       ELSE LET h == Append2(history(t),
                             ToolNodeOutput(Batch(t), outputs[t], done[t]))
            IN  /\ checkpoints' = [checkpoints EXCEPT ![Key(t)] = h]
                /\ steps' = [steps EXCEPT ![t] = @ + 1]
                /\ AfterStep(t, h, tools_edge)
    /\ done' = [done EXCEPT ![t] = <<>>]
    /\ outputs' = [outputs EXCEPT ![t] = <<>>]
    /\ UNCHANGED <<seen, llm_input, turnStart, decisions, toolRounds,
                   dispatches, executed, turns, tvars, fvars>>

(* ------------------------------ the tools ----------------------------- *)

\* The tool functions of the repository: tools.py (TRAVEL_TOOLS), nodes.py
\* (the list of graph.py's ToolNode) and src/demo.py (TOOLS).
ToolFunctions ==
    {"get_weather_forecast", "web_search_tavily", "continue_chat",
     "nodes.get_weather_data", "demo.get_weather_data"}

\* The first argument (location, query, user_message) by what the
\* validation of the bodies tells apart: a name, "", "   ", one character,
\* and a value that is no string.
ArgClasses == {"valid", "empty", "blank", "short", "not_a_string"}

\* What the upstream service does to one request: a usable payload, a
\* payload without data, or one of the failures.
Upstream ==
    {"ok", "no_data", "network_error", "timeout", "http_error", "bad_json",
     "bad_shape"}

\* What the request raises in the caller: requests.get / raise_for_status /
\* resp.json() raise subclasses of RequestException; a payload of the wrong
\* shape raises KeyError, AttributeError, TypeError or IndexError where the
\* body indexes it.
Raised(b) ==
    CASE b \in {"network_error", "timeout", "http_error", "bad_json"}
            -> "RequestException"
      [] b = "bad_shape" -> "KeyError"
      [] OTHER -> "none"

Return(stmt) == [do |-> "return", stmt |-> stmt]
Raise(exc) == [do |-> "raise", stmt |-> exc]
Request == [do |-> "request", stmt |-> ""]

\* @tool (tools.py:21, 178, 257; demo.py:57) and ToolNode's wrapping of a
\* plain function (graph.py:27): the arguments are validated against the
\* signature before the body runs, and a value that is no str is rejected
\* with a validation message that ToolNode returns as the tool's output.
PassesSchema(a) == a # "not_a_string"

\* tools.py:50-64, up to the request.
get_weather_forecast_entry(a, c) ==
    IF a \in {"empty", "not_a_string", "blank", "short"}
    THEN Return("I need a valid city/location name to get weather forecast.")
    ELSE IF ~c
    THEN Return("Weather forecast unavailable: API key not configured")
    ELSE Request

get_weather_forecast_reply_NoCatchAll(n, b) ==
    IF Raised(b) = "RequestException"
    THEN Return("Weather forecast unavailable for {location}: Network error")
    ELSE IF Raised(b) # "none"
    THEN Raise(Raised(b))
    ELSE IF b = "no_data"
    THEN Return("No weather forecast available for {location}")
    ELSE Return("Weather forecast for {city_name}: ...")

\* tools.py:69-175: the single request and the handlers around it.
get_weather_forecast_reply(n, b) ==
    IF Raised(b) = "RequestException"
    THEN Return("Weather forecast unavailable for {location}: Network error")
    ELSE IF Raised(b) # "none"
    THEN Return("Weather forecast unavailable for {location}: {str(e)}")
    ELSE IF b = "no_data"
    THEN Return("No weather forecast available for {location}")
    ELSE Return("Weather forecast for {city_name}: ...")

\* tools.py:184-199, up to the first search.
web_search_tavily_entry(a, c) ==
    IF a \in {"empty", "not_a_string", "blank"}
    THEN Return("sources: []")
    ELSE IF ~c
    THEN Return("Search unavailable: TAVILY_API_KEY not configured")
    ELSE Request

web_search_tavily_reply_ThreeTries(n, b) ==
    IF Raised(b) = "RequestException"
    THEN IF n - 1 <= 1 THEN Request ELSE Return("sources: []")
    ELSE IF b = "bad_shape"
    THEN Return("sources: [{title: 'Result', url: 'tavily-search', ...}]")
    ELSE IF b = "no_data"
    THEN Return("sources: []")
    ELSE Return("sources: [{title: ..., url: ..., summary: ...}]")

\* tools.py:201-254: `for attempt in range(2)`, attempt = n - 1, and the
\* formatting of the response. Whatever tavily_search.invoke raises is
\* caught at line 209; a response that is neither a dict with "results" nor
\* a list takes the fallback of line 224.
web_search_tavily_reply(n, b) ==
    IF Raised(b) = "RequestException"
    THEN IF n - 1 = 0 THEN Request ELSE Return("sources: []")
    ELSE IF b = "bad_shape"
    THEN Return("sources: [{title: 'Result', url: 'tavily-search', ...}]")
    ELSE IF b = "no_data"
    THEN Return("sources: []")
    ELSE Return("sources: [{title: ..., url: ..., summary: ...}]")

\* tools.py:257-262.
continue_chat_entry(a, c) == Return(continue_chat(a))

\* nodes.py:9-15: no validation; the key is read inside the try.
nodes_get_weather_data_entry(a, c) ==
    IF ~c
    THEN Return("Weather data unavailable: API key not configured")
    ELSE Request

\* nodes.py:17-52.
nodes_get_weather_data_reply(n, b) ==
    IF Raised(b) = "RequestException"
    THEN Return("Failed to get weather data for {location}: Network error")
    ELSE IF Raised(b) = "KeyError"
    THEN Return("Failed to parse weather data for {location}: Invalid response format")
    ELSE IF b = "no_data"
    THEN Return("No weather data available for {location}")
    ELSE Return("Weather in {location}: ...")

\* src/demo.py:61-72, up to the first request.
demo_get_weather_data_entry(a, c) ==
    IF a \in {"empty", "not_a_string", "blank", "short"}
    THEN Return("I need a city/location name to check weather.")
    ELSE IF ~c
    THEN Return("Weather data unavailable: API key not configured")
    ELSE Request

\* src/demo.py:75-98: `for attempt in range(2)`; a RequestException is
\* retried once, any other exception breaks out of the loop.
demo_get_weather_data_reply(n, b) ==
    IF Raised(b) = "RequestException"
    THEN IF n - 1 = 0
         THEN Request
         ELSE Return("Weather data unavailable for {location}: {last_error}")
    ELSE IF Raised(b) # "none"
    THEN Return("Weather data unavailable for {location}: {last_error}")
    ELSE IF b = "no_data"
    THEN Return("No weather data available for {location}")
    ELSE Return("weather: {temp_c: ..., feels_like_c: ..., ...}")

Entry(f, a, c) ==
    CASE f = "get_weather_forecast" -> get_weather_forecast_entry(a, c)
      [] f = "web_search_tavily" -> web_search_tavily_entry(a, c)
      [] f = "continue_chat" -> continue_chat_entry(a, c)
      [] f = "nodes.get_weather_data" -> nodes_get_weather_data_entry(a, c)
      [] f = "demo.get_weather_data" -> demo_get_weather_data_entry(a, c)

Reply(f, n, b) ==
    CASE f = "get_weather_forecast" -> get_weather_forecast_reply(n, b)
      [] f = "web_search_tavily" -> web_search_tavily_reply(n, b)
      [] f = "nodes.get_weather_data" -> nodes_get_weather_data_reply(n, b)
      [] f = "demo.get_weather_data" -> demo_get_weather_data_reply(n, b)

Tpc(step) ==
    CASE step.do = "return" -> "returned"
      [] step.do = "raise" -> "raised"
      [] step.do = "request" -> "upstream"

\* demo.py:41-45, run when the module is loaded: load_dotenv(), then
\* os.environ["TAVILY_API_KEY"] = os.getenv("TAVILY_API_KEY"). os.getenv
\* gives None for a variable that is not set, and os.environ refuses a value
\* that is no str with TypeError; nothing is around the statement.
demo_module_level(tavily_key_set) ==
    IF tavily_key_set THEN "loaded" ELSE "TypeError"

\* python demo.py starts (or the module is imported).
demo_import(tavily_key_set) ==
    /\ tpc = "idle"
    /\ demo_module = "not_loaded"
    /\ demo_module' = demo_module_level(tavily_key_set)
    /\ UNCHANGED <<tool, arg, cred, tpc, attempts, treturn, gvars, fvars, cvars>>

\* One invocation of a tool with one argument, the key set or not. The tools
\* of demo.py exist once its module is loaded.
ToolInvoke(f, a, c) ==
    /\ tpc = "idle"
    /\ f = "demo.get_weather_data" => demo_module = "loaded"
    /\ tool' = f
    /\ arg' = a
    /\ cred' = c
    /\ attempts' = <<>>
    /\ LET step == IF PassesSchema(a)
                   THEN Entry(f, a, c)
                   ELSE Return("Error: validation error. Please fix your mistakes.")
       IN  /\ tpc' = Tpc(step)
           /\ treturn' = step.stmt
    /\ UNCHANGED <<demo_module, gvars, fvars, cvars>>

\* The request in flight is answered (or fails) and the body goes on.
UpstreamReplies(b) ==
    /\ tpc = "upstream"
    /\ attempts' = Append(attempts, b)
    /\ LET step == Reply(tool, Len(attempts) + 1, b)
       IN  /\ tpc' = Tpc(step)
           /\ treturn' = step.stmt
    /\ UNCHANGED <<tool, arg, cred, demo_module, gvars, fvars, cvars>>

\* The invocation is over; the functions keep no state between calls.
ToolDone ==
    /\ tpc \in {"returned", "raised"}
    /\ tpc' = "idle"
    /\ attempts' = <<>>
    /\ treturn' = ""
    /\ UNCHANGED <<tool, arg, cred, demo_module, gvars, fvars, cvars>>

(* ------------------------- upstream payloads -------------------------- *)

\* The calendar the clock and the forecast timestamps range over: day d is
\* 2025-01-(d+1), d in 0..MaxDay.
MaxDay == 2

\* Entries in the "list" of a forecast payload.
MaxEntries == 2

\* A day past the five days of the longest forecast window that starts on
\* day 0.
FarDay == MaxDay + 3

\* The days that timestamps of the service name.
Calendar == (0..MaxDay) \cup {FarDay}

\* date.strftime("%Y-%m-%d") (tools.py:150).
DateStr(d) == "2025-01-0" \o ToString(d + 1)

\* The dt_txt the service sends for a forecast of day d.
dt_txt_of(d) == DateStr(d) \o " 12:00:00"

\* date.strftime("%A") (tools.py:149); 2025-01-01 is a Wednesday.
DayName(d) ==
    <<"Wednesday", "Thursday", "Friday", "Saturday", "Sunday", "Monday",
      "Tuesday">>[(d % 7) + 1]

\* What strptime_date gives where datetime.strptime raises ValueError.
NoDate == -1

\* tools.py:93-94: datetime.strptime(dt_txt, "%Y-%m-%d %H:%M:%S").date().
strptime_date(dt_txt) ==
    IF \E d \in Calendar : dt_txt_of(d) = dt_txt
    THEN CHOOSE d \in Calendar : dt_txt_of(d) = dt_txt
    ELSE NoDate

\* What one forecast entry reports. temp and feels_like are main.temp and
\* main.feels_like in hundredths of the unit asked for (degrees Celsius with
\* units=metric, tools.py:67; kelvin without, demo.py:71), humidity is
\* main.humidity, pop is pop * 100, description is weather[0].description.
MetricObservations ==
    {[temp |-> 500, has_feels_like |-> FALSE, feels_like |-> 0,
      humidity |-> 40, pop |-> 0, description |-> "clear sky"],
     [temp |-> 930, has_feels_like |-> FALSE, feels_like |-> 0,
      humidity |-> 65, pop |-> 80, description |-> "light rain"]}

KelvinObservations ==
    {[temp |-> 27815, has_feels_like |-> FALSE, feels_like |-> 0,
      humidity |-> 40, pop |-> 0, description |-> "clear sky"],
     [temp |-> 28245, has_feels_like |-> TRUE, feels_like |-> 28025,
      humidity |-> 65, pop |-> 80, description |-> "light \"rain\""]}

\* The dt_txt values of an entry: a timestamp of the calendar, none, and
\* one that does not parse.
DtTexts == {dt_txt_of(d) : d \in Calendar} \cup {"", "not-a-date"}

Entry_(dt_txt, obs) ==
    [dt_txt |-> dt_txt, temp |-> obs.temp,
     has_feels_like |-> obs.has_feels_like, feels_like |-> obs.feels_like,
     humidity |-> obs.humidity, pop |-> obs.pop,
     description |-> obs.description]

ClearSky == CHOOSE o \in MetricObservations : o.description = "clear sky"

LightRain == CHOOSE o \in MetricObservations : o.description = "light rain"

\* The elements of data["list"]: clear sky at each day 0..MaxDay and at the
\* far day, light rain at day 0 (a second, different observation of a day),
\* and an element without dt_txt or with one that does not parse.
ForecastEntries ==
    {Entry_(x, ClearSky) : x \in DtTexts} \cup {Entry_(dt_txt_of(0), LightRain)}

SeqsUpTo(S, n) == UNION {[1..k -> S] : k \in 0..n}

\* resp.json() of the forecast endpoint: "list", and "city" with or without
\* a "name".
ForecastPayloads ==
    {[list |-> l, has_city |-> TRUE, city_name |-> "Paris, FR"] :
        l \in SeqsUpTo(ForecastEntries, MaxEntries)}
    \cup {[list |-> l, has_city |-> FALSE, city_name |-> ""] :
             l \in SeqsUpTo(ForecastEntries, 1)}

\* The payloads demo.py's tool is run on: it reads list[0] only.
DemoPayloads ==
    {[list |-> l, has_city |-> FALSE, city_name |-> ""] :
        l \in SeqsUpTo({Entry_(x, o) : x \in {dt_txt_of(0), ""},
                                       o \in KelvinObservations}, 1)}

\* Results in one search response.
MaxDocs == 2

\* tools.py:235: the characters of content a summary keeps.
SummaryBudget == 280

\* tools.py:224: the characters of an unrecognised response that are kept.
FallbackBudget == 200

\* tools.py:179, 228: max_results when none is given or it is 0.
DefaultMaxResults == 2

\* demo.py:228: the length from which print_turn shortens a tool output on
\* the screen, and what it puts behind the part it shows.
DisplayCap == 2000

TruncationMarker == "... [truncated]"

\* The one character U+2026 (HORIZONTAL ELLIPSIS) of tools.py:235.
Ellipsis == "~"

\* n times the character ch.
RECURSIVE Rep(_, _)
Rep(ch, n) ==
    IF n = 0 THEN ""
    ELSE LET h == Rep(ch, n \div 2)
         IN  IF n % 2 = 0 THEN h \o h ELSE h \o h \o ch

Doc(title, url, content, raw_content) ==
    [is_dict |-> TRUE, title |-> title, url |-> url, content |-> content,
     raw_content |-> raw_content]

\* The results a search may hold: plain, with double quotes in every field,
\* with white space around the fields and the text under raw_content, with
\* nothing in any field, and an element that is no dict.
Docs ==
    {Doc("Rome guide", "https://example.org/rome", "Top sights", ""),
     Doc("The \"Eternal\" City", "https://example.org/?q=\"rome\"",
         "He said \"go\"", ""),
     Doc("  Rome  ", "", "", " from raw "),
     Doc("", "", "", ""),
     [is_dict |-> FALSE, title |-> "", url |-> "", content |-> "",
      raw_content |-> ""]}

\* Results with content of SummaryBudget and of SummaryBudget + 1
\* characters, and one whose title is longer than DisplayCap.
ExactDoc == Doc("Exact", "", Rep("x", SummaryBudget), "")

LongDoc == Doc("Long read", "", Rep("x", SummaryBudget + 1), "")

LongTitleDoc == Doc(Rep("t", DisplayCap + 100), "", "", "")

\* What tavily_search.invoke returns (tools.py:207): a dict with "results",
\* a list, or something else, of which str() is taken.
SearchResponses ==
    {[shape |-> sh, results |-> r, text |-> ""] :
        sh \in {"dict", "list"}, r \in SeqsUpTo(Docs, MaxDocs)}
    \cup {[shape |-> "dict", results |-> r, text |-> ""] :
             r \in {<<ExactDoc>>, <<LongDoc>>, <<LongTitleDoc>>}}
    \cup {[shape |-> "other", results |-> <<>>, text |-> t] :
             t \in {"{'error': 'no \"results\" for query'}",
                    Rep("e", FallbackBudget + 1)}}

\* The max_results arguments tried: none given or 0, inside the results,
\* beyond them, and a negative one.
MaxResultsArgs == {-1, 0, 1, 2, 3}

Queries == {"things to do in Rome"}

(* ----------------------------- formatting ----------------------------- *)

\* round(a / b) and round(x, 1) of Python: to the nearest, ties to even.
RoundHalfEven(a, b) ==
    LET q == a \div b
        r == a % b
    IN  IF 2 * r < b THEN q
        ELSE IF 2 * r > b THEN q + 1
        ELSE IF q % 2 = 0 THEN q ELSE q + 1

\* A number of tenths as Python prints the float: 50 -> "5.0", -12 -> "-1.2".
RECURSIVE Fmt1(_)
Fmt1(t) ==
    IF t < 0 THEN "-" \o Fmt1(0 - t)
    ELSE ToString(t \div 10) \o "." \o ToString(t % 10)

SeqMin(q) == CHOOSE x \in {q[i] : i \in DOMAIN q} : \A i \in DOMAIN q : x <= q[i]

SeqMax(q) == CHOOSE x \in {q[i] : i \in DOMAIN q} : \A i \in DOMAIN q : x >= q[i]

RECURSIVE SeqSum(_)
SeqSum(q) == IF q = <<>> THEN 0 ELSE Head(q) + SeqSum(Tail(q))

Occurrences(q, x) == Cardinality({i \in DOMAIN q : q[i] = x})

\* tools.py:143-146: max(desc_counts, key=desc_counts.get): the description
\* counted most often, the one met first among equals.
most_common_desc(descriptions) ==
    LET best == CHOOSE i \in DOMAIN descriptions :
                   /\ \A j \in DOMAIN descriptions :
                         Occurrences(descriptions, descriptions[j])
                            <= Occurrences(descriptions, descriptions[i])
                   /\ \A j \in 1..(i - 1) :
                         Occurrences(descriptions, descriptions[j])
                            < Occurrences(descriptions, descriptions[i])
    IN  descriptions[best]

EffectiveDays_AsGiven(days) == days

\* tools.py:55-57.
EffectiveDays(days) == IF days < 1 \/ days > 5 THEN 5 ELSE days

\* tools.py:88-99: the date of an entry that is kept, NoDate for one that
\* is skipped (no dt_txt, ValueError, outside today .. today + days - 1).
KeptDate(forecast, days, now) ==
    LET d == strptime_date(forecast.dt_txt)
    IN  IF forecast.dt_txt = "" \/ d = NoDate THEN NoDate
        ELSE IF d - now < 0 \/ d - now >= days THEN NoDate
        ELSE d

\* tools.py:84-118: the entries kept, grouped by date.
daily_forecasts(forecasts, days, now) ==
    LET dates == {KeptDate(forecasts[i], days, now) : i \in DOMAIN forecasts}
                    \ {NoDate}
    IN  [d \in dates |->
            SelectSeq(forecasts, LAMBDA f : KeptDate(f, days, now) = d)]

Field(q, name) == [i \in DOMAIN q |-> q[i][name]]

\* tools.py:152-159.
date_label(date, now) ==
    IF date - now = 0 THEN "Today"
    ELSE IF date - now = 1 THEN "Tomorrow"
    ELSE DayName(date)

\* tools.py:136-164: the line of one date.
DayLine(date, day_data, now) ==
    LET min_temp == RoundHalfEven(SeqMin(Field(day_data, "temp")), 10)
        max_temp == RoundHalfEven(SeqMax(Field(day_data, "temp")), 10)
        avg_humidity == RoundHalfEven(SeqSum(Field(day_data, "humidity")),
                                      Len(day_data))
        max_pop == SeqMax(Field(day_data, "pop"))
    IN  date_label(date, now) \o " (" \o DateStr(date) \o "): "
        \o Fmt1(min_temp) \o "°C - " \o Fmt1(max_temp) \o "°C, "
        \o most_common_desc(Field(day_data, "description"))
        \o ", humidity " \o ToString(avg_humidity)
        \o "%, precipitation chance " \o ToString(max_pop) \o "%"

\* sorted(daily_forecasts.keys()) (tools.py:130).
RECURSIVE sorted(_)
sorted(S) ==
    IF S = {} THEN <<>>
    ELSE LET m == CHOOSE x \in S : \A y \in S : x <= y
         IN  <<m>> \o sorted(S \ {m})

\* sep.join(parts).
RECURSIVE join(_, _)
join(sep, parts) ==
    IF parts = <<>> THEN ""
    ELSE IF Len(parts) = 1 THEN parts[1]
    ELSE parts[1] \o sep \o join(sep, Tail(parts))

\* tools.py:75-168: the string returned for the payload `data` when the
\* clock reads `now` (today = datetime.now().date(), tools.py:85).
get_weather_forecast_format(location, days, data, now) ==
    LET loc == strip(location)
        city_name == IF data.has_city THEN data.city_name ELSE loc
        daily == daily_forecasts(data.list, EffectiveDays(days), now)
        dates == sorted(DOMAIN daily)
    IN  IF data.list = <<>>
        THEN "No weather forecast available for " \o loc
        ELSE IF DOMAIN daily = {}
        THEN "No valid forecast data found for " \o loc
        ELSE join("\n",
                  <<"Weather forecast for " \o city_name \o ":">>
                  \o [k \in DOMAIN dates |->
                         DayLine(dates[k], daily[dates[k]], now)])

\* demo.py:87: cf.get("dt_txt") or the dt of the entry (absent: 0) as UTC.
demo_timestamp(cf) ==
    IF cf.dt_txt # "" THEN cf.dt_txt ELSE "1970-01-01 00:00:00"

\* demo.py:80-89: the string returned for the payload `data`.
demo_get_weather_data_format(location, data) ==
    LET loc == strip(location)
    IN  IF data.list = <<>>
        THEN "No weather data available for " \o loc
        ELSE LET cf == data.list[1]
                 temp_c == RoundHalfEven(cf.temp - 27315, 10)
                 feels_c == IF cf.has_feels_like
                            THEN RoundHalfEven(cf.feels_like - 27315, 10)
                            ELSE temp_c
             IN  "weather: {temp_c: " \o Fmt1(temp_c)
                 \o ", feels_like_c: " \o Fmt1(feels_c)
                 \o ", description: \"" \o cf.description
                 \o "\", humidity: " \o ToString(cf.humidity)
                 \o ", timestamp: \"" \o demo_timestamp(cf) \o "\"}"

\* s.replace(old, new) for a single character old.
RECURSIVE replace(_, _, _)
replace(s, old, new) ==
    IF Len(s) = 0 THEN s
    ELSE IF Len(s) = 1 THEN (IF s = old THEN new ELSE s)
    ELSE LET m == Len(s) \div 2
         IN  replace(SubSeq(s, 1, m), old, new)
             \o replace(SubSeq(s, m + 1, Len(s)), old, new)

\* s[:n] for n >= 0.
Prefix(s, n) == SubSeq(s, 1, Min(n, Len(s)))

\* s[:n] for any integer n: a negative n counts from the end.
SliceTo(s, n) ==
    IF n >= 0 THEN Prefix(s, n)
    ELSE IF Len(s) + n > 0 THEN Prefix(s, Len(s) + n)
    ELSE Prefix(s, 0)

summary_of_AlwaysMarked(content) == Prefix(content, SummaryBudget) \o Ellipsis

\* tools.py:235.
summary_of(content) ==
    IF Len(content) > SummaryBudget
    THEN Prefix(content, SummaryBudget) \o Ellipsis
    ELSE content

\* tools.py:229-242: what one result adds to `normalized`: a one-element
\* list, or nothing.
normalized_doc(doc) ==
    IF ~doc.is_dict THEN <<>>
    ELSE LET url == strip(doc.url)
             title == strip(doc.title)
             content == strip(IF doc.content # "" THEN doc.content
                              ELSE doc.raw_content)
             summary == summary_of(content)
         IN  IF url # "" \/ title # "" \/ summary # ""
             THEN LET safe_title == replace(title, "\"", "'")
                      safe_url == replace(url, "\"", "'")
                      safe_summary == replace(summary, "\"", "'")
                  IN  <<"{title: \"" \o safe_title \o "\", url: \"" \o safe_url
                        \o "\", summary: \"" \o safe_summary \o "\"}">>
             ELSE <<>>

RECURSIVE normalized_docs(_)
normalized_docs(results) ==
    IF results = <<>> THEN <<>>
    ELSE normalized_doc(Head(results)) \o normalized_docs(Tail(results))

\* tools.py:215-250: the string returned for the response of the search.
web_search_tavily_format(query, max_results, search_response) ==
    IF search_response.shape = "other"
    THEN "sources: [{title: \"Result\", url: \"tavily-search\", summary: \""
         \o Prefix(search_response.text, FallbackBudget) \o "...\"}]"
    ELSE LET results == search_response.results
             limit == IF max_results # 0 THEN max_results
                      ELSE DefaultMaxResults
             normalized == normalized_docs(SliceTo(results, limit))
         IN  IF normalized = <<>>
             THEN "sources: []"
             ELSE "sources: [" \o join(", ", normalized) \o "]"

\* demo.py:226-228: what print_turn shows of a tool output; the message in
\* the conversation is not changed by it.
display(out) ==
    IF Len(out) < DisplayCap THEN out
    ELSE Prefix(out, DisplayCap) \o TruncationMarker

(* ------------------------- formatting, run by run --------------------- *)

NoCall ==
    [tool |-> "none", location |-> "", days |-> 0,
     data |-> [list |-> <<>>, has_city |-> FALSE, city_name |-> ""],
     at |-> 0, out |-> ""]

\* The output of tool f on the arguments and the payload at day `now`; for
\* the search the arguments are the query and max_results.
Output(f, location, days, data, now) ==
    CASE f = "get_weather_forecast"
            -> get_weather_forecast_format(location, days, data, now)
      [] f = "demo.get_weather_data"
            -> demo_get_weather_data_format(location, data)
      [] f = "web_search_tavily"
            -> web_search_tavily_format(location, days, data)

Invocation(f, location, days, data, now) ==
    [tool |-> f, location |-> location, days |-> days, data |-> data,
     at |-> now, out |-> Output(f, location, days, data, now)]

\* The days arguments tried: inside 1..5, below and above.
DaysArgs == {0, 2, 7}

Locations == {"Paris"}

\* get_weather_forecast is invoked and the service answers with `data`.
Forecast(location, days, data) ==
    /\ last_call.tool = "none"
    /\ last_call' = Invocation("get_weather_forecast", location, days, data, today)
    /\ prev_call' = NoCall
    /\ UNCHANGED <<today, gvars, tvars, cvars>>

\* demo.py's get_weather_data is invoked and the service answers with `data`.
DemoWeather(location, data) ==
    /\ last_call.tool = "none"
    /\ last_call' = Invocation("demo.get_weather_data", location, 0, data, today)
    /\ prev_call' = NoCall
    /\ UNCHANGED <<today, gvars, tvars, cvars>>

\* web_search_tavily is invoked and the search answers with search_response.
Search(query, max_results, search_response) ==
    /\ last_call.tool = "none"
    /\ last_call' = Invocation("web_search_tavily", query, max_results,
                               search_response, today)
    /\ prev_call' = NoCall
    /\ UNCHANGED <<today, gvars, tvars, cvars>>

\* The last invocation is made once more, k days later: the same tool, the
\* same arguments, the same answer of the service.
Again(k) ==
    /\ last_call.tool # "none"
    /\ today + k <= MaxDay
    /\ today' = today + k
    /\ prev_call' = last_call
    /\ last_call' = Invocation(last_call.tool, last_call.location, last_call.days,
                               last_call.data, today + k)
    /\ UNCHANGED <<gvars, tvars, cvars>>

\* The caller is through with the invocation; the tools keep nothing.
Forget ==
    /\ last_call.tool # "none"
    /\ last_call' = NoCall
    /\ prev_call' = NoCall
    /\ UNCHANGED <<today, gvars, tvars, cvars>>

(* --------------------------- the caller loops ------------------------- *)

\* The programs with a caller loop: the command-line loop of main.py, the
\* web chat of streamlit_app.py, the command-line loop of src/demo.py.
Programs == {"main.py", "streamlit_app.py", "demo.py"}

uuid4_Reused(u) ==
    IF u = {} THEN CHOOSE id \in Threads : TRUE ELSE CHOOSE id \in u : TRUE

\* str(uuid.uuid4()) (main.py:56, 75; streamlit_app.py:76, 137; demo.py:250):
\* an id that was not handed out before.
uuid4(u) == CHOOSE id \in Threads \ u : TRUE

\* main.py:68 and demo.py:267.
QuitWords == {"quit", "exit", "q"}

\* The lines typed at the prompt of main.py.
CliLines == {"user_text", "", "   ", "quit", " EXIT ", "q", "Reset"}

\* What st.chat_input hands to streamlit_app.py:167: "" stands for None
\* (nothing was submitted).
WebPrompts == {"user_text", "", "quit"}

\* The lines typed at the prompt of demo.py.
DemoLines == {"user_text", "", "exit", "reset"}

\* One entry of st.session_state.messages (streamlit_app.py:169, 195): role
\* and content. `at` is not in the dict: it records the position, in the
\* channel of the thread the turn ran on, of the message the content is of.
DisplayedMessage(role, content, at) ==
    [role |-> role, content |-> content, at |-> at]

\* The caller is at its prompt: no turn of its thread is running.
AtPrompt(p) ==
    /\ program = p
    /\ cpc = "loop"
    /\ pc[config_thread_id] = "idle"

\* The input was dealt with in the caller; nothing reaches the graph.
NotSubmitted(line, what) ==
    /\ handled' = what
    /\ UNCHANGED <<gvars, tvars, fvars>>

\* main.py:73-78, streamlit_app.py:135-138: a new thread id is put in the
\* caller's config; nothing is done to the checkpointer.
NewThread(line) ==
    /\ Threads \ used # {}
    /\ config_thread_id' = uuid4(used)
    /\ used' = used \cup {uuid4(used)}
    /\ turns_here' = 0
    /\ NotSubmitted(line, "reset")
    /\ UNCHANGED <<program, cpc>>

\* The input goes to the graph as the content of one HumanMessage under
\* the caller's thread id.
Submitted(line, content) ==
    /\ app_invoke(config_thread_id, content)
    /\ handled' = "submitted"
    /\ turns_here' = turns_here + 1
    /\ UNCHANGED <<program, cpc, config_thread_id, used>>

\* main.py:62-91: one line read at the prompt.
CliInput(line) ==
    /\ AtPrompt("main.py")
    /\ LET user_input == strip(line)
       IN  IF lower(user_input) \in QuitWords
           THEN /\ cpc' = "exited"
                /\ NotSubmitted(line, "quit")
                /\ UNCHANGED <<program, config_thread_id, used, turns_here>>
           ELSE IF lower(user_input) = "reset"
           THEN NewThread(line)
           ELSE IF user_input = ""
           THEN /\ NotSubmitted(line, "skipped")
                /\ UNCHANGED <<program, cpc, config_thread_id, used, turns_here>>
           ELSE Submitted(line, user_input)
    /\ UNCHANGED session_state

\* streamlit_app.py:145-149: the script finds no agent in the session and
\* calls create_agent (streamlit_app.py:89-101), which stores the TravelAgent
\* or, when its construction raises, shows the error; st.stop() then ends
\* the run before the sidebar and the chat input are drawn.
WebStart(created) ==
    /\ program = "streamlit_app.py"
    /\ session_state.agent = "None"
    /\ session_state' = [session_state EXCEPT !.agent =
           IF created THEN "TravelAgent" ELSE "None"]
    /\ handled' = IF created THEN "started" ELSE "error"
    /\ UNCHANGED <<gvars, tvars, fvars, program, cpc, config_thread_id, used,
                   turns_here>>

\* streamlit_app.py:167-182: one run of the script with the prompt the chat
\* input holds.
WebInput(prompt) ==
    /\ AtPrompt("streamlit_app.py")
    /\ session_state.agent # "None"
    /\ IF prompt = ""
       THEN /\ NotSubmitted(prompt, "skipped")
            /\ UNCHANGED <<program, cpc, config_thread_id, used, turns_here,
                           session_state>>
       ELSE /\ Submitted(prompt, prompt)
            /\ session_state' = [session_state EXCEPT !.messages =
                   Append(@, DisplayedMessage("user", prompt,
                                              Len(history(config_thread_id)) + 1))]

WebClear_KeepsMessages ==
    /\ AtPrompt("streamlit_app.py")
    /\ session_state.agent # "None"
    /\ NewThread("")
    /\ UNCHANGED session_state

\* streamlit_app.py:135-138: the "Clear Conversation" button.
WebClear ==
    /\ AtPrompt("streamlit_app.py")
    /\ session_state.agent # "None"
    /\ NewThread("")
    /\ session_state' = [session_state EXCEPT !.messages = <<>>]

\* demo.py:254-255: before the loop, a turn with the text "Hey" is run on
\* the new thread; no try is around it inside main().
DemoSeed ==
    /\ program = "demo.py"
    /\ cpc = "seed"
    /\ turns_here = 0
    /\ Submitted("Hey", "Hey")
    /\ UNCHANGED session_state

\* demo.py:258-276: one line read at the prompt.
DemoInput(line) ==
    /\ AtPrompt("demo.py")
    /\ LET user == strip(line)
       IN  IF user = ""
           THEN /\ NotSubmitted(line, "skipped")
                /\ UNCHANGED <<program, cpc, config_thread_id, used, turns_here>>
           ELSE IF lower(user) \in QuitWords
           THEN /\ cpc' = "exited"
                /\ NotSubmitted(line, "quit")
                /\ UNCHANGED <<program, config_thread_id, used, turns_here>>
           ELSE Submitted(line, user)
    /\ UNCHANGED session_state

\* Where an exception that leaves the turn's invoke takes the caller:
\* main.py:100-102 and demo.py:277-279 print it and go on with the loop,
\* streamlit_app.py:203-205 shows it; in demo.py the turn of line 255 has
\* only the handler of demo.py:286-290 around it, which ends the process
\* with sys.exit(1).
OnException(p, at) == IF p = "demo.py" /\ at = "seed" THEN "crashed" ELSE "loop"

\* Where KeyboardInterrupt takes the caller: main.py:97-99 leaves the loop;
\* demo.py catches it at the prompt only (demo.py:261), and `except
\* Exception` (demo.py:277, 288) does not catch it.
OnKeyboardInterrupt(p, at) == IF p = "main.py" THEN "exited" ELSE "crashed"

\* streamlit_app.py:184-201: result["messages"] is the whole channel of the
\* thread; the response found in it, when it is not "", is appended to the
\* displayed conversation, and otherwise "No response generated" is shown
\* and nothing is appended.
WebShows(state, messages) ==
    LET assistant_response_ == assistant_response(messages)
    IN  IF assistant_response_ # EmptyText
        THEN [state EXCEPT !.messages =
                 Append(@, DisplayedMessage("assistant", assistant_response_,
                           assistant_response_index(messages, Len(messages))))]
        ELSE state

\* What the caller does when a step of the graph has ended the turn of its
\* thread: it shows the answer, or the exception.
CallerReacts(t) ==
    IF t = config_thread_id /\ pc'[t] = "idle"
    THEN /\ handled' = IF result'[t] = "answer" THEN "answered" ELSE "error"
         /\ cpc' = IF result'[t] = "answer" THEN "loop"
                   ELSE OnException(program, cpc)
         /\ session_state' =
               IF program = "streamlit_app.py" /\ result'[t] = "answer"
               THEN WebShows(session_state, checkpoints'[t])
               ELSE session_state
         /\ UNCHANGED <<program, config_thread_id, used, turns_here>>
    ELSE UNCHANGED cvars

\* The decision responses the caller loops are run against: an answer, no
\* text at all, or one call, of the weather tool under the name the system
\* instruction gives it or of continue_chat. (Batches, the other tools and
\* names from nowhere are met in Spec, ToolSpec and FormatSpec.)
PlainResponse(t) ==
    LET m == Last(checkpoints'[t])
    IN  /\ m.content # PaddedText
        /\ Len(m.tool_calls) <= 1
        /\ \A k \in DOMAIN m.tool_calls :
              m.tool_calls[k].name \in {"get_weather_data", "continue_chat"}

\* The user presses Ctrl-C while the turn of the caller's thread is between
\* two steps of the graph: KeyboardInterrupt leaves app.invoke. The
\* checkpoint keeps what the finished steps have written.
Interrupt ==
    /\ program \in {"main.py", "demo.py"}
    /\ cpc \in {"seed", "loop"}
    /\ pc[config_thread_id] # "idle"
    /\ pc' = [pc EXCEPT ![config_thread_id] = "idle"]
    /\ result' = [result EXCEPT ![config_thread_id] = "KeyboardInterrupt"]
    /\ done' = [done EXCEPT ![config_thread_id] = <<>>]
    /\ outputs' = [outputs EXCEPT ![config_thread_id] = <<>>]
    /\ handled' = "interrupted"
    /\ cpc' = OnKeyboardInterrupt(program, cpc)
    /\ UNCHANGED <<checkpoints, steps, seen, llm_input, answer, web_answer,
                   turnStart, decisions, toolRounds, dispatches, executed,
                   turns, tvars, fvars, program, config_thread_id, used,
                   turns_here, session_state>>

(* --------------------------- specifications --------------------------- *)

GInit ==
    /\ checkpoints = [t \in Threads |-> <<>>]
    /\ pc = [t \in Threads |-> "idle"]
    /\ steps = [t \in Threads |-> 0]
    /\ done = [t \in Threads |-> <<>>]
    /\ outputs = [t \in Threads |-> <<>>]
    /\ seen = [t \in Threads |-> <<>>]
    /\ llm_input = [t \in Threads |-> <<>>]
    /\ result = [t \in Threads |-> "none"]
    /\ answer = [t \in Threads |-> EmptyText]
    /\ web_answer = [t \in Threads |-> EmptyText]
    /\ turnStart = [t \in Threads |-> 0]
    /\ decisions = [t \in Threads |-> 0]
    /\ toolRounds = [t \in Threads |-> 0]
    /\ dispatches = [t \in Threads |-> 0]
    /\ executed = [t \in Threads |-> <<>>]
    /\ turns = 0

TInit ==
    /\ tool = "continue_chat"
    /\ arg = "valid"
    /\ cred = TRUE
    /\ tpc = "idle"
    /\ attempts = <<>>
    /\ treturn = ""
    /\ demo_module = "not_loaded"

FInit ==
    /\ today = 0
    /\ last_call = NoCall
    /\ prev_call = NoCall

\* The caller loop of main.py at its first prompt, with the thread id of
\* main.py:56-57.
\* streamlit_app.py:70-86 (the thread id of line 76 is config_thread_id).
init_session_state ==
    [messages |-> <<>>, agent |-> "None",
     model_name |-> "llama3.2", temperature |-> "0.2"]

CInit ==
    /\ program = "main.py"
    /\ cpc = "loop"
    /\ config_thread_id = uuid4({})
    /\ used = {uuid4({})}
    /\ handled = "none"
    /\ turns_here = 0
    /\ session_state = init_session_state

Init == GInit /\ TInit /\ FInit /\ CInit

Next ==
    \/ \E t \in Threads : SubmitTurn(t) /\ UNCHANGED cvars
    \/ \E t \in Threads : Assistant(t) /\ UNCHANGED cvars
    \/ \E t \in Threads : DecisionFails(t) /\ UNCHANGED cvars
    \/ \E t \in Threads : \E i \in 1..(MaxBatch + 1) :
          ToolComplete(t, i) /\ UNCHANGED cvars
    \/ \E t \in Threads : ToolsFinish(t) /\ UNCHANGED cvars

Spec == Init /\ [][Next]_vars

ToolNext ==
    \/ \E f \in ToolFunctions : \E a \in ArgClasses : \E c \in BOOLEAN :
          ToolInvoke(f, a, c)
    \/ \E b \in Upstream : UpstreamReplies(b)
    \/ ToolDone
    \/ \E k \in BOOLEAN : demo_import(k)

ToolSpec == Init /\ [][ToolNext]_vars

FormatNext ==
    \/ \E l \in Locations : \E d \in DaysArgs : \E data \in ForecastPayloads :
          Forecast(l, d, data)
    \/ \E l \in Locations : \E data \in DemoPayloads : DemoWeather(l, data)
    \/ \E q \in Queries : \E m \in MaxResultsArgs : \E r \in SearchResponses :
          Search(q, m, r)
    \/ \E k \in 0..MaxDay : Again(k)
    \/ Forget

FormatSpec == Init /\ [][FormatNext]_vars

\* Any one of the three programs, started.
CallerInit ==
    /\ GInit /\ TInit /\ FInit
    /\ program \in Programs
    /\ cpc = IF program = "demo.py" THEN "seed" ELSE "loop"
    /\ config_thread_id = uuid4({})
    /\ used = {uuid4({})}
    /\ handled = "none"
    /\ turns_here = 0
    /\ session_state = init_session_state

CallerNext ==
    \/ \E line \in CliLines : CliInput(line)
    \/ \E created \in BOOLEAN : WebStart(created)
    \/ \E prompt \in WebPrompts : WebInput(prompt)
    \/ WebClear
    \/ DemoSeed
    \/ \E line \in DemoLines : DemoInput(line)
    \/ Interrupt
    \/ \E t \in Threads : Assistant(t) /\ PlainResponse(t) /\ CallerReacts(t)
    \/ \E t \in Threads : DecisionFails(t) /\ CallerReacts(t)
    \/ \E t \in Threads : \E i \in 1..(MaxBatch + 1) :
          ToolComplete(t, i) /\ CallerReacts(t)
    \/ \E t \in Threads : ToolsFinish(t) /\ CallerReacts(t)

CallerSpec == CallerInit /\ [][CallerNext]_vars

(* ------------------------------- claims ------------------------------- *)

Failed(b) == Raised(b) # "none"

\* The messages of thread t's history that are tool results answering the
\* call id.
ResultsFor(h, id) == {i \in DOMAIN h : h[i].role = "tool" /\ h[i].tool_call_id = id}

Count(s, x) == Cardinality({i \in DOMAIN s : s[i] = x})

\* C1. Thread isolation: whatever turns were submitted under thread ids A
\* and B, A # B, the history of B and the messages the decision step
\* received on B hold no message appended during a turn on A.
C1_ThreadIsolation ==
    \A a \in Threads : \A b \in Threads \ {a} :
        /\ \A i \in DOMAIN history(b) : history(b)[i].origin # a
        /\ \A i \in DOMAIN seen[b] : seen[b][i].origin # a

\* Both threads have had a turn, and the decision step has read B's
\* history after A's turn had appended messages.
C1_Witness ==
    /\ Len(history("A")) >= 2
    /\ Len(seen["B"]) >= 1
    /\ result["A"] = "answer"
    /\ result["B"] = "answer"

\* C2. Round cap: a turn in which every decision response carried a tool
\* call ends, after a bounded number of decision rounds, with a fallback
\* assistant answer (content, no tool calls), not with an error.
C2_RoundCapFallback ==
    \A t \in Threads :
        (pc[t] = "idle" /\ decisions[t] > 0 /\ toolRounds[t] = decisions[t])
        => /\ decisions[t] <= MaxRounds + 1
           /\ result[t] = "answer"
           /\ Last(history(t)).role = "assistant"
           /\ Last(history(t)).tool_calls = <<>>
           /\ Last(history(t)).content # EmptyText

\* C3. Retry bound: when every upstream attempt of a tool invocation
\* fails, at most two requests are made, and after the second the tool has
\* returned a string.
C3_RetryBound ==
    (\A i \in DOMAIN attempts : Failed(attempts[i]))
    => /\ Len(attempts) <= 2
       /\ tpc # "raised"
       /\ (Len(attempts) = 2 => tpc = "returned")

\* The search tool after two failed searches.
C3_Witness ==
    /\ tool = "web_search_tavily"
    /\ Len(attempts) = 2
    /\ Failed(attempts[1]) /\ Failed(attempts[2])
    /\ tpc = "returned"

\* C4. Retry on transient failure: an invocation whose first request failed
\* (network error, timeout, malformed payload) has made exactly one further
\* request when it is over, and returns the success output when that second
\* request succeeded.
C4_RetryOnTransient ==
    (tpc \in {"returned", "raised"} /\ Len(attempts) >= 1 /\ Failed(attempts[1]))
    => /\ Len(attempts) = 2
       /\ (~Failed(attempts[2])
           => treturn = Reply(tool, 1, attempts[2]).stmt)

\* C5. No tool invocation raises: whatever the tool, the argument and the
\* upstream behaviour, the invocation never ends with an exception.
C5_NoToolRaises == tpc # "raised"

\* The weather tool has returned after a payload of the wrong shape.
C5_Witness ==
    /\ tool = "get_weather_forecast"
    /\ tpc = "returned"
    /\ attempts = <<"bad_shape">>

\* C6. Result ordering: the tool results of a batch of N calls stand in the
\* history right after the assistant message, in the order of its calls:
\* the k-th result answers the k-th call and was produced by running it.
C6_ResultOrdering ==
    \A t \in Threads :
        LET h == history(t)
        IN  \A i \in DOMAIN h :
                (h[i].tool_calls # <<>> /\ i < Len(h))
                => /\ Len(h) >= i + Len(h[i].tool_calls)
                   /\ \A k \in DOMAIN h[i].tool_calls :
                         /\ h[i + k].role = "tool"
                         /\ h[i + k].tool_call_id = h[i].tool_calls[k].id
                         /\ h[i + k].by \in {NoId, h[i].tool_calls[k].id}

\* A batch whose second call finished before its first, with both results
\* in the history.
C6_Witness ==
    \E t \in Threads :
        /\ Len(executed[t]) >= 2
        /\ executed[t][1] = <<t, 2>>
        /\ executed[t][2] = <<t, 1>>
        /\ Cardinality(ResultsFor(history(t), <<t, 1>>)) = 1
        /\ Cardinality(ResultsFor(history(t), <<t, 2>>)) = 1

\* C7. A turn whose first decision response carries no tool calls is over
\* at once: END is taken, the answer is that response, the decision step
\* was called once, no tool ran, and the history grew by the user message
\* and that response only.
C7_DirectAnswerEndsTurn ==
    \A t \in Threads :
        LET h == history(t)
            n == turnStart[t]
        IN  (Len(h) >= n + 2 /\ h[n + 2].role = "assistant"
                /\ h[n + 2].tool_calls = <<>>)
            => /\ pc[t] = "idle"
               /\ result[t] = "answer"
               /\ answer[t] = h[n + 2].content
               /\ decisions[t] = 1
               /\ dispatches[t] = 0
               /\ Len(h) = n + 2
               /\ h[n + 1].role = "user"

\* A second turn on a thread that ended on its first response.
C7_Witness ==
    \E t \in Threads :
        /\ turnStart[t] > 0
        /\ Len(history(t)) = turnStart[t] + 2
        /\ result[t] = "answer"
        /\ decisions[t] = 1

C9_ToolCallIdMatches ==
    \A t \in Threads :
        LET h == history(t)
        IN  \A i \in DOMAIN h :
                h[i].role = "tool"
                => \E j \in 1..(i - 1) :
                      /\ h[j].role = "assistant"
                      /\ \E k \in DOMAIN h[j].tool_calls :
                            h[j].tool_calls[k].id = h[i].tool_call_id

\* A thread holds the results of a batch of two calls.
C9_Witness ==
    \E t \in Threads : \E i \in DOMAIN history(t) :
        /\ history(t)[i].role = "tool"
        /\ i < Len(history(t))
        /\ history(t)[i + 1].role = "tool"

IsPrefix(s, r) == Len(s) <= Len(r) /\ SubSeq(r, 1, Len(s)) = s

\* C11. Append-only history: every step of every turn leaves each thread's
\* history with its earlier value as a prefix; nothing is removed, replaced,
\* reordered or merged.
C11_AppendOnly ==
    [][\A t \in Threads : IsPrefix(checkpoints[t], checkpoints'[t])]_vars

\* A second turn on a thread has run a tool round on top of the messages of
\* the first turn and has ended.
C11_Witness ==
    \E t \in Threads :
        /\ turnStart[t] >= 2
        /\ pc[t] = "idle"
        /\ Len(history(t)) >= turnStart[t] + 4
        /\ history(t)[turnStart[t] + 3].role = "tool"

\* C12. Every decision call of a turn receives sys_msg followed by the
\* whole history of the thread as it stood at the call, in order: the
\* messages of earlier turns, the turn's user message and every tool-call
\* and tool-result message appended so far.
C12_FullHistoryToDecision ==
    \A t \in Threads :
        LET h == history(t)
        IN  decisions[t] > 0
            => /\ llm_input[t][1] = sys_msg
               /\ IsPrefix(Tail(llm_input[t]), h)
               /\ Len(llm_input[t]) >= 1 + turnStart[t] + 1
               /\ (Last(h).role = "assistant" /\ pc[t] # "assistant")
                  => llm_input[t] = <<sys_msg>> \o SubSeq(h, 1, Len(h) - 1)
               /\ (pc[t] = "idle" /\ result[t] = "DecisionError")
                  => llm_input[t] = <<sys_msg>> \o h

\* The decision step of a second turn has answered after reading the first
\* turn's messages, the tool call of this turn and its result.
C12_Witness ==
    \E t \in Threads :
        /\ turnStart[t] >= 2
        /\ pc[t] = "idle"
        /\ result[t] = "answer"
        /\ Len(llm_input[t]) = turnStart[t] + 4
        /\ llm_input[t][turnStart[t] + 4].role = "tool"
        /\ llm_input[t][2].role = "user"

(* ----------------------------- the answer ----------------------------- *)

\* The last assistant message of a history that holds one.
LastAssistant(h) ==
    h[CHOOSE i \in DOMAIN h :
          /\ h[i].role = "assistant"
          /\ \A j \in DOMAIN h : j > i => h[j].role # "assistant"]

\* C13. When a turn has ended with an answer, what the command-line loop
\* prints and what the web chat shows for it are both the content of the
\* last assistant message of the thread's history.
C13_AnswerIsLastAssistant ==
    \A t \in Threads :
        (pc[t] = "idle" /\ result[t] = "answer")
        => /\ answer[t] = LastAssistant(history(t)).content
           /\ web_answer[t] = LastAssistant(history(t)).content

\* The messages a thread's running or last turn has appended.
TurnMessages(t) == SubSeq(history(t), turnStart[t] + 1, Len(history(t)))

\* C14. History growth: a turn that ended with an answer after k rounds of
\* tool calls carrying n_1..n_k calls has appended exactly
\* 1 + (k + n_1 + ... + n_k) + 1 messages: the user message, per round the
\* assistant message with its calls followed by one result per call, and
\* the final assistant message; 4 messages on a fresh thread when k = 1 and
\* n_1 = 1.
C14_HistoryGrowth ==
    \A t \in Threads :
        (pc[t] = "idle" /\ result[t] = "answer")
        => LET seg == TurnMessages(t)
           IN  /\ Len(seg) = 1 + (toolRounds[t] + NumCalls(seg)) + 1
               /\ seg[1].role = "user"
               /\ Last(seg).role = "assistant"
               /\ Last(seg).tool_calls = <<>>
               /\ \A i \in 2..(Len(seg) - 1) :
                     /\ seg[i].role \in {"assistant", "tool"}
                     /\ seg[i].role = "assistant"
                        => LET n == Len(seg[i].tool_calls)
                           IN  /\ n >= 1
                               /\ i + n + 1 <= Len(seg)
                               /\ \A k \in 1..n : seg[i + k].role = "tool"
                               /\ seg[i + n + 1].role = "assistant"
               /\ seg[2].role = "assistant"
               /\ (turnStart[t] = 0 /\ toolRounds[t] = 1 /\ NumCalls(seg) = 1)
                  => Len(history(t)) = 4

\* A fresh thread after one round with a single tool call and the final
\* answer: user, assistant-with-call, tool-result, assistant-final.
C14_Witness ==
    \E t \in Threads :
        LET h == history(t)
        IN  /\ pc[t] = "idle"
            /\ result[t] = "answer"
            /\ turnStart[t] = 0
            /\ Len(h) = 4
            /\ h[1].role = "user"
            /\ Len(h[2].tool_calls) = 1
            /\ h[3].role = "tool"
            /\ h[4].role = "assistant"

(* ----------------------------- tool output ---------------------------- *)

IsWeatherTool(f) == f \in {"get_weather_forecast", "demo.get_weather_data"}

\* C15. Formatting idempotence: a weather tool invoked again with the same
\* arguments on the same upstream data returns the same string, whenever
\* the second invocation is made.
C15_FormattingIdempotent ==
    (/\ IsWeatherTool(last_call.tool)
     /\ prev_call.tool = last_call.tool
     /\ prev_call.location = last_call.location
     /\ prev_call.days = last_call.days
     /\ prev_call.data = last_call.data)
    => prev_call.out = last_call.out

\* The fixed string a tool returns when its API key is not configured.
Unconfigured(f) ==
    CASE f = "get_weather_forecast"
            -> "Weather forecast unavailable: API key not configured"
      [] f = "web_search_tavily"
            -> "Search unavailable: TAVILY_API_KEY not configured"
      [] f \in {"nodes.get_weather_data", "demo.get_weather_data"}
            -> "Weather data unavailable: API key not configured"

\* The invocations C16 is about: a weather or search tool, a valid
\* argument, the key not configured.
KeyMissing ==
    /\ tpc # "idle"
    /\ tool # "continue_chat"
    /\ arg = "valid"
    /\ ~cred

\* C16. Missing credential: with the API key of a capability not
\* configured, an invocation with valid arguments returns the capability's
\* fixed unavailability string without a request, and no part of the
\* program is brought down by the missing key.
C16_MissingCredential ==
    /\ KeyMissing
       => /\ tpc = "returned"
          /\ attempts = <<>>
          /\ treturn = Unconfigured(tool)
    /\ demo_module # "TypeError"

\* "<capability> unavailable for <subject>: <reason>", each part non-empty.
HasFailureShape(s) ==
    LET mark == " unavailable for "
        i == Find(s, mark)
        rest == SubSeq(s, i + Len(mark), Len(s))
        j == Find(rest, ": ")
    IN  /\ i > 1
        /\ j > 1
        /\ j + 1 < Len(rest)

\* The invocation has given up: it has returned and every request it made
\* failed on the way (network error, timeout, HTTP error, unreadable body).
GaveUp ==
    /\ tpc = "returned"
    /\ attempts # <<>>
    /\ \A i \in DOMAIN attempts : Raised(attempts[i]) = "RequestException"

\* What the tool returns when the service answers with no data.
EmptyResult(f) == Reply(f, 1, "no_data").stmt

\* C17. Failure string shape: a tool that gives up after its requests have
\* failed returns "<capability> unavailable for <subject>: <reason>", which
\* is not the string it returns for a successful empty result.
C17_FailureStringShape ==
    GaveUp
    => /\ HasFailureShape(treturn)
       /\ treturn # EmptyResult(tool)

\* The arguments C18 names as failing validation: a weather location that
\* is empty, no string, or shorter than 2 characters after stripping; a
\* search query that is empty or white space only.
FailsValidation(f, a) ==
    IF f = "web_search_tavily" THEN a \in {"empty", "blank"}
    ELSE IF f = "continue_chat" THEN FALSE
    ELSE a \in {"empty", "blank", "short", "not_a_string"}

\* C18. Argument validation: a tool invoked with an argument that fails
\* validation returns without raising and without a request, and what it
\* returns is an explanation, not the text of a successful empty result.
C18_ArgumentValidation ==
    (tpc # "idle" /\ FailsValidation(tool, arg))
    => /\ tpc = "returned"
       /\ attempts = <<>>
       /\ treturn # EmptyResult(tool)

\* C19. Output length cap: the text a tool returns into the conversation
\* is never longer than the threshold plus the truncation marker, and a
\* text longer than the threshold ends with the marker.
C19_OutputLengthCap ==
    last_call.tool # "none"
    => /\ Len(last_call.out) <= DisplayCap + Len(TruncationMarker)
       /\ Len(last_call.out) > DisplayCap
          => SubSeq(last_call.out,
                    Len(last_call.out) - Len(TruncationMarker) + 1,
                    Len(last_call.out)) = TruncationMarker

\* The pseudo-structured outputs: 'sources: [...]' and 'weather: {...}'.
IsStructured(s) ==
    \/ Prefix(s, Len("sources: [")) = "sources: ["
    \/ Prefix(s, Len("weather: {")) = "weather: {"

\* The double quote at position i of s delimits a value: it opens one
\* (right after "key: ") or closes one (right before "," or "}").
DelimitsValue(s, i) ==
    \/ i > 2 /\ SubSeq(s, i - 2, i - 1) = ": "
    \/ i < Len(s) /\ CharAt(s, i + 1) \in {",", "}"}

\* C20. Quote sanitisation: in a pseudo-structured string a tool returns,
\* every double quote delimits a value; none comes from the upstream data
\* embedded in it.
C20_QuoteSanitisation ==
    (last_call.tool # "none" /\ IsStructured(last_call.out))
    => \A i \in 1..Len(last_call.out) :
          CharAt(last_call.out, i) = "\"" => DelimitsValue(last_call.out, i)

(* --------------------------- search results --------------------------- *)

\* The values of the summary fields of a 'sources: [...]' string, in order.
RECURSIVE EmittedSummaries(_)
EmittedSummaries(s) ==
    LET open == "summary: \""
        i == Find(s, open)
        rest == SubSeq(s, i + Len(open), Len(s))
        j == Find(rest, "\"}")
    IN  IF i = 0 \/ j = 0 THEN <<>>
        ELSE <<SubSeq(rest, 1, j - 1)>>
             \o EmittedSummaries(SubSeq(rest, j + 2, Len(rest)))

\* The text of a result: its content, its raw_content when it has none.
ContentOf(doc) == strip(IF doc.content # "" THEN doc.content ELSE doc.raw_content)

\* A result that is a record with at least one non-empty field.
Qualifies(doc) ==
    /\ doc.is_dict
    /\ \/ strip(doc.url) # ""
       \/ strip(doc.title) # ""
       \/ ContentOf(doc) # ""

\* The last invocation was a search that was answered with a result list.
SearchedList ==
    /\ last_call.tool = "web_search_tavily"
    /\ last_call.data.shape # "other"

\* The results of the answer that the search looked at, and of them the
\* ones it emitted a source for.
Considered ==
    SliceTo(last_call.data.results,
            IF last_call.days # 0 THEN last_call.days ELSE DefaultMaxResults)

Emitted == SelectSeq(Considered, Qualifies)

\* The summary the budget allows for a text.
Budgeted(text) ==
    IF Len(text) <= SummaryBudget THEN text
    ELSE SubSeq(text, 1, SummaryBudget) \o Ellipsis

\* C21, as stated. Summary budget: the summary emitted for a search result
\* is its stripped content unchanged when that has at most 280 characters,
\* otherwise its first 280 characters followed by one ellipsis character,
\* and no emitted summary is longer than 281 characters.
C21_SummaryUnchanged ==
    SearchedList
    => LET sums == EmittedSummaries(last_call.out)
       IN  /\ Len(sums) = Len(Emitted)
           /\ \A k \in DOMAIN sums :
                 /\ sums[k] = Budgeted(ContentOf(Emitted[k]))
                 /\ Len(sums[k]) <= SummaryBudget + 1

\* C21, amended. The summary emitted for a search result is its stripped
\* content with every double quote replaced by an apostrophe, whole when the
\* content has at most 280 characters, otherwise cut to its first 280
\* characters followed by one ellipsis character; no emitted summary is
\* longer than 281 characters.
C21_SummaryBudget ==
    SearchedList
    => LET sums == EmittedSummaries(last_call.out)
       IN  /\ Len(sums) = Len(Emitted)
           /\ \A k \in DOMAIN sums :
                 /\ sums[k] = replace(Budgeted(ContentOf(Emitted[k])), "\"", "'")
                 /\ Len(sums[k]) <= SummaryBudget + 1

\* A search has returned a summary of 281 characters that ends with the
\* ellipsis, for a result whose content has 281.
C21_Witness ==
    /\ SearchedList
    /\ last_call.data.results = <<LongDoc>>
    /\ LET sums == EmittedSummaries(last_call.out)
       IN  /\ Len(sums) = 1
           /\ Len(sums[1]) = SummaryBudget + 1
           /\ CharAt(sums[1], SummaryBudget + 1) = Ellipsis

(* --------------------------- the caller layer ------------------------- *)

\* The first turn on the caller's thread id has reached the decision step.
FirstTurnDecided ==
    /\ turns_here = 1
    /\ decisions[config_thread_id] >= 1

\* C22. Fresh context: a thread id that was never used has an empty
\* history; the first turn on a new thread id (the first of the program, or
\* the first after 'reset' / "Clear Conversation") starts from an empty
\* history and its decision step receives only messages of that turn; and
\* the step that puts a new thread id in the caller's config leaves every
\* stored history as it is.
C22_FreshContext ==
    /\ [](/\ \A t \in Threads \ used : history(t) = <<>>
          /\ turns_here = 1 => turnStart[config_thread_id] = 0
          /\ FirstTurnDecided
             => LET t == config_thread_id
                IN  /\ llm_input[t][1] = sys_msg
                    /\ IsPrefix(Tail(llm_input[t]), TurnMessages(t))
                    /\ \A i \in DOMAIN seen[t] : seen[t][i].origin = t)
    /\ [][config_thread_id' # config_thread_id => checkpoints' = checkpoints]_vars

\* After a reset the first turn on the new thread id has ended with an
\* answer, while the thread id dropped holds the messages of the turn before.
C22_Witness ==
    /\ Cardinality(used) = 2
    /\ FirstTurnDecided
    /\ result[config_thread_id] = "answer"
    /\ \E old \in used \ {config_thread_id} : Len(history(old)) >= 2

(* ----------------------------- concurrency ---------------------------- *)

\* All that the program holds for thread t: its stored history and the
\* state of the turn running on it.
Local(t) ==
    <<checkpoints[t], pc[t], steps[t], done[t], outputs[t], seen[t],
      llm_input[t], result[t], answer[t], web_answer[t], turnStart[t],
      decisions[t], toolRounds[t], dispatches[t], executed[t]>>

\* What the decision step can return after history h when the turn runs
\* alone: an answer, or up to MaxBatch calls under the thread's next ids.
SoloResponses(t, h) ==
    {AIMessage(c, <<>>, t) : c \in {AnswerText, PaddedText, EmptyText}}
    \cup UNION {{AIMessage(EmptyText, calls, t) : calls \in CallBatches(t, h, n)} :
                n \in 1..MaxBatch}

\* The messages of thread t's last turn are the ones the turn appends when
\* it runs with no other turn beside it: the user message, then decision
\* responses over the thread's own history, each followed by the results of
\* its own calls in call order, the last response being the answer returned.
SoloTurn(t) ==
    LET h == history(t)
        n == turnStart[t]
    IN  /\ Len(h) >= n + 2
        /\ h[n + 1] = HumanMessage(UserText, t)
        /\ \A i \in (n + 2)..Len(h) :
              IF h[i].role = "assistant"
              THEN /\ h[i] \in SoloResponses(t, SubSeq(h, 1, i - 1))
                   /\ i = n + 2 \/ h[i - 1].role = "tool"
              ELSE \E j \in (n + 2)..(i - 1) :
                      /\ h[j].role = "assistant"
                      /\ i - j \in DOMAIN h[j].tool_calls
                      /\ h[i] = RunOne(h[j].tool_calls[i - j], t)
        /\ Last(h).role = "assistant"
        /\ Last(h).tool_calls = <<>>
        /\ answer[t] = Last(h).content

\* C23. Concurrent independence: however the steps of two turns on distinct
\* thread ids interleave, a step of one leaves all that belongs to the other
\* thread as it is, and each thread's final history and answer are the ones
\* its turn produces when it runs alone.
C23_ConcurrentIndependence ==
    /\ [](\A t \in Threads :
             (pc[t] = "idle" /\ result[t] = "answer") => SoloTurn(t))
    /\ [][\A a \in Threads : \A b \in Threads \ {a} :
             Local(a)' # Local(a) => Local(b)' = Local(b)]_vars

\* Two turns are under way at the same time, each waiting in the tools node
\* with its call run.
C23_Witness ==
    /\ pc["A"] = "tools" /\ pc["B"] = "tools"
    /\ Len(done["A"]) = 1 /\ Len(done["B"]) = 1

(* --------------------------- turns that fail -------------------------- *)

\* The turn of the caller's thread was abandoned: it is over without an
\* answer, by Ctrl-C or by an exception that left app.invoke.
Abandoned ==
    /\ pc[config_thread_id] = "idle"
    /\ result[config_thread_id]
          \in {"KeyboardInterrupt", "DecisionError", "GraphRecursionError", "ToolError"}

\* C24. Abandoned turn: the step that abandons a turn (user interrupt or an
\* error leaving the turn) takes nothing from the messages already appended
\* to the thread and leaves the caller at its prompt with the same thread
\* id; a turn submitted next on that thread starts at the end of that
\* history.
C24_AbandonedTurn ==
    /\ [][(pc[config_thread_id] # "idle" /\ Abandoned')
             => /\ \A u \in Threads : IsPrefix(checkpoints[u], checkpoints'[u])
                /\ config_thread_id' = config_thread_id
                /\ cpc' = "loop"]_vars
    /\ [][(Abandoned /\ pc'[config_thread_id] = "assistant")
             => LET t == config_thread_id
                IN  /\ turnStart'[t] = Len(checkpoints[t])
                    /\ Len(checkpoints'[t]) = Len(checkpoints[t]) + 1
                    /\ IsPrefix(checkpoints[t], checkpoints'[t])]_vars

\* A failure ended the turn: the decision call raised, a tool raised, or the
\* recursion limit was hit.
Failure(t) ==
    /\ pc[t] = "idle"
    /\ result[t] \in {"DecisionError", "GraphRecursionError", "ToolError"}

\* C25. No failure is fatal: a failure of the decision call or of a tool
\* during any turn, the first included, does not end the process; the step
\* in which the turn fails leaves the caller at its prompt with the failure
\* shown as an error text.
C25_NoFailureIsFatal ==
    /\ [](cpc = "crashed" => result[config_thread_id] = "KeyboardInterrupt")
    /\ [][(pc[config_thread_id] # "idle" /\ Failure(config_thread_id)')
             => (cpc' = "loop" /\ handled' = "error")]_vars

\* An input that is for the caller only: nothing after stripping, or one of
\* the control words quit, exit, q, reset in any case.
IsControlOrEmpty(text) ==
    \/ strip(text) = ""
    \/ lower(strip(text)) \in QuitWords \cup {"reset"}

\* C26. Empty input never reaches the core: in every caller loop an input
\* that is empty after stripping, or a control word (quit, exit, q, reset),
\* is dealt with in the caller: no thread holds a user message with such a
\* text, so no decision step was invoked for one.
C26_ControlInputStaysInCaller ==
    \A t \in Threads : \A i \in DOMAIN history(t) :
        history(t)[i].role = "user" => ~IsControlOrEmpty(history(t)[i].content)

(* --------------------------- the final answer ------------------------- *)

\* C27. Structural contract of a final answer: a turn is over with an
\* answer only on an assistant message that has no tool calls and has
\* content; a response with neither tool calls nor content does not end the
\* turn with an empty answer.
C27_FinalAnswerHasContent ==
    \A t \in Threads :
        (pc[t] = "idle" /\ result[t] = "answer")
        => /\ Last(history(t)).role = "assistant"
           /\ Last(history(t)).tool_calls = <<>>
           /\ Last(history(t)).content # EmptyText
           /\ answer[t] # EmptyText

(* ------------------------- the limit of a search ---------------------- *)

\* The values of the title fields of a 'sources: [...]' string, in order.
RECURSIVE EmittedTitles(_)
EmittedTitles(s) ==
    LET open == "{title: \""
        i == Find(s, open)
        rest == SubSeq(s, i + Len(open), Len(s))
        j == Find(rest, "\", url: \"")
    IN  IF i = 0 \/ j = 0 THEN <<>>
        ELSE <<SubSeq(rest, 1, j - 1)>>
             \o EmittedTitles(SubSeq(rest, j, Len(rest)))

\* The limit asked for: max_results, 2 when it is 0 or not given.
RequestedLimit ==
    IF last_call.days # 0 THEN last_call.days ELSE DefaultMaxResults

\* The first RequestedLimit results of the answer (none for a limit below
\* 1), and of them the ones that qualify.
FirstRequested ==
    SubSeq(last_call.data.results, 1,
           IF RequestedLimit < 0 THEN 0
           ELSE Min(RequestedLimit, Len(last_call.data.results)))

Expected == SelectSeq(FirstRequested, Qualifies)

\* C28. Search result limit: for every integer max_results and every result
\* list, the sources emitted are, in order, exactly the qualifying results
\* (records with a non-empty field) among the first max_results results (the
\* first 2 when max_results is 0); their number never exceeds the limit
\* asked for (none is emitted for a limit below 0); and the output is
\* 'sources: []' when none qualifies.
C28_SearchResultLimit ==
    SearchedList
    => LET titles == EmittedTitles(last_call.out)
           sums == EmittedSummaries(last_call.out)
       IN  /\ Len(titles) = Len(Expected)
           /\ Len(sums) = Len(Expected)
           /\ \A k \in DOMAIN titles :
                 /\ titles[k] = replace(strip(Expected[k].title), "\"", "'")
                 /\ sums[k] = replace(Budgeted(ContentOf(Expected[k])), "\"", "'")
           /\ Len(titles) <= (IF RequestedLimit < 0 THEN 0 ELSE RequestedLimit)
           /\ Expected = <<>> => last_call.out = "sources: []"

(* -------------------------- the forecast window ----------------------- *)

\* s.split(sep).
RECURSIVE Split(_, _)
Split(s, sep) ==
    LET i == Find(s, sep)
    IN  IF i = 0 THEN <<s>>
        ELSE <<SubSeq(s, 1, i - 1)>> \o Split(SubSeq(s, i + Len(sep), Len(s)), sep)

\* The day a line "<label> (YYYY-MM-DD): ..." of a forecast is for.
LineDate(line) ==
    LET i == Find(line, " (")
        txt == SubSeq(line, i + 2, i + 11)
    IN  IF i > 0 /\ \E d \in Calendar : DateStr(d) = txt
        THEN CHOOSE d \in Calendar : DateStr(d) = txt
        ELSE NoDate

\* The days of the lines of a forecast, in the order of the lines.
LineDates(out) == [k \in 1..(Len(Split(out, "\n")) - 1) |-> LineDate(Split(out, "\n")[k + 1])]

\* The last invocation was a forecast that succeeded.
ForecastGiven ==
    /\ last_call.tool = "get_weather_forecast"
    /\ Prefix(last_call.out, Len("Weather forecast for ")) = "Weather forecast for "

\* The window asked for: days, 5 when days is not in 1..5.
Window == IF last_call.days \in 1..5 THEN last_call.days ELSE 5

\* The entry names a day of the window that starts on the day of the call.
InWindow(e) ==
    /\ strptime_date(e.dt_txt) # NoDate
    /\ strptime_date(e.dt_txt) - last_call.at >= 0
    /\ strptime_date(e.dt_txt) - last_call.at < Window

ContinueChatRound(t) ==
    /\ pc[t] = "tools"
    /\ Batch(t) # <<>>
    /\ \A i \in DOMAIN Batch(t) :
          Batch(t)[i].name = "continue_chat" /\ IsRegistered(Batch(t)[i])

\* The channel of thread t has grown by one tool message per call of the
\* batch, in the order of the calls, each with the constant as its content.
ConstantAppended(t) ==
    /\ Len(checkpoints'[t]) = Len(checkpoints[t]) + Len(Batch(t))
    /\ IsPrefix(checkpoints[t], checkpoints'[t])
    /\ \A i \in DOMAIN Batch(t) :
          LET m == checkpoints'[t][Len(checkpoints[t]) + i]
          IN  /\ m.role = "tool"
              /\ m.content = "CONTINUE_CHAT"
              /\ m.tool_call_id = Batch(t)[i].id

Displayed == session_state.messages

\* C31: in the web chat, every assistant text in the displayed conversation
\* stands right after the user text of its turn and is the stripped content
\* of a message the thread received after that turn's user message: it is
\* never taken from a message of an earlier turn.
C31_WebAnswerNotStale ==
    program = "streamlit_app.py" =>
        \A k \in DOMAIN Displayed :
            Displayed[k].role = "assistant" =>
                /\ k > 1
                /\ Displayed[k - 1].role = "user"
                /\ Displayed[k].at > Displayed[k - 1].at

(* ---------------------- the instruction and the registry -------------- *)

\* The tool messages of the caller's thread that answer a call of a name
\* the system instruction advertises.
AdvertisedCallResults ==
    {i \in DOMAIN checkpoints[config_thread_id] :
        /\ checkpoints[config_thread_id][i].role = "tool"
        /\ checkpoints[config_thread_id][i].name \in Advertised(program)}

\* C32: every tool name the system instruction advertises resolves in the
\* registry of the agent it is given to: a call of an advertised name is
\* never answered by the unknown-tool message.
C32_AdvertisedToolsResolve ==
    \A i \in AdvertisedCallResults :
        checkpoints[config_thread_id][i].content # "not_a_valid_tool"

(* -------------------------- Clear Conversation ------------------------ *)

\* The displayed message d is the message at position d.at of the channel
\* of thread t: the user's prompt as it was sent, or the stripped content
\* of an assistant message.
ShownFrom(d, t) ==
    /\ d.at \in DOMAIN checkpoints[t]
    /\ LET m == checkpoints[t][d.at]
       IN  \/ d.role = "user" /\ m.role = "user" /\ d.content = m.content
           \/ d.role = "assistant" /\ m.role = "assistant"
                  /\ d.content = strip(m.content)

\* C33: in the web chat, the step that replaces the thread id is the step
\* that empties the displayed conversation; the new id was never used, and
\* the agent, the model name, the temperature and the checkpoints stay as
\* they are. At every moment each displayed message is a message of the
\* channel of the current thread id.
C33_ClearConversation ==
    /\ [](program = "streamlit_app.py" =>
            \A k \in DOMAIN Displayed : ShownFrom(Displayed[k], config_thread_id))
    /\ [][(program = "streamlit_app.py" /\ config_thread_id' # config_thread_id)
             => /\ Displayed' = <<>>
                /\ config_thread_id' \notin used
                /\ session_state'.agent = session_state.agent
                /\ session_state'.model_name = session_state.model_name
                /\ session_state'.temperature = session_state.temperature
                /\ checkpoints' = checkpoints]_vars
    /\ [][(program = "streamlit_app.py" /\ Len(Displayed') < Len(Displayed))
             => config_thread_id' # config_thread_id]_vars

\* A conversation was cleared after a turn and a prompt was sent since: the
\* first thread keeps its messages, and the display shows the new one.
C33_Witness ==
    /\ program = "streamlit_app.py"
    /\ Cardinality(used) = 2
    /\ Displayed # <<>>
    /\ \E t \in used \ {config_thread_id} : Len(checkpoints[t]) >= 2

=============================================================================
